---- MODULE Spec2Model ----
\* Model of packages/svelte/src/lib/object.svelte.ts: the ObjectClient class
\* (a streamed-JSON request bridged to reactive fields) and its callers' view
\* of it.  A JSON value is represented by its canonical text (a sequence of
\* characters), undefined by the empty sequence.
EXTENDS Integers, Sequences, FiniteSets, TLC

\* ---------------------------------------------------------------- bounds
MaxSubs == 2        \* submit() calls over all clients
MaxText == 2        \* characters received over all submissions

\* ---------------------------------------------------------------- values
Clients == {"c1", "c2"}
Subs == 1..MaxSubs
Chars == {"[", "]", ",", "1"}
NoId == "none"
Undef == <<>>
NoCtrl == 0
NoErr == [name |-> "undefined", of |-> 0]

Pop(st) == SubSeq(st, 1, Len(st) - 1)
Top(st) == st[Len(st)]

\* strict JSON grammar over Chars: value ::= 1+ | [] | [ value (, value)* ]
\* mode: what the scanner expects next; depth: open arrays
RECURSIVE ValidFrom(_, _, _, _)
ValidFrom(text, i, mode, depth) ==
  IF i > Len(text)
    THEN depth = 0 /\ mode \in {"num", "after"}
    ELSE LET ch == text[i] IN
      CASE mode \in {"val", "valOrClose"} /\ ch = "1" -> ValidFrom(text, i + 1, "num", depth)
        [] mode \in {"val", "valOrClose"} /\ ch = "[" -> ValidFrom(text, i + 1, "valOrClose", depth + 1)
        [] mode = "valOrClose" /\ ch = "]" -> ValidFrom(text, i + 1, "after", depth - 1)
        [] mode = "num" /\ ch = "1" -> ValidFrom(text, i + 1, "num", depth)
        [] mode \in {"num", "after"} /\ ch = "," /\ depth > 0 -> ValidFrom(text, i + 1, "val", depth)
        [] mode \in {"num", "after"} /\ ch = "]" /\ depth > 0 -> ValidFrom(text, i + 1, "after", depth - 1)
        [] OTHER -> FALSE

\* JSON.parse succeeds on text
Valid(text) == ValidFrom(text, 1, "val", 0)

\* fixJson: the value-start and after-array-value steps of its scanner
ProcessValueStart(ch, i, swap, st) ==
  CASE ch = "1" -> [stack |-> Pop(st.stack) \o <<swap, "NUMBER">>, last |-> i]
    [] ch = "[" -> [stack |-> Pop(st.stack) \o <<swap, "ARR_START">>, last |-> i]
    [] OTHER -> st

ProcessAfterArrayValue(ch, i, st) ==
  CASE ch = "," -> [stack |-> Pop(st.stack) \o <<"ARR_AFTER_COMMA">>, last |-> st.last]
    [] ch = "]" -> [stack |-> Pop(st.stack), last |-> i]
    [] OTHER -> st

FixStep(ch, i, st) ==
  LET top == Top(st.stack)
      popped == [stack |-> Pop(st.stack), last |-> st.last]
  IN CASE top = "ROOT" -> ProcessValueStart(ch, i, "FINISH", st)
       [] top = "ARR_START" ->
            IF ch = "]" THEN [stack |-> Pop(st.stack), last |-> i]
            ELSE ProcessValueStart(ch, i, "ARR_AFTER_VALUE", [stack |-> st.stack, last |-> i])
       [] top = "ARR_AFTER_VALUE" -> ProcessAfterArrayValue(ch, i, st)
       [] top = "ARR_AFTER_COMMA" -> ProcessValueStart(ch, i, "ARR_AFTER_VALUE", st)
       [] top = "NUMBER" ->
            IF ch = "1" THEN [stack |-> st.stack, last |-> i]
            ELSE IF ch \in {",", "]"} /\ Top(popped.stack) = "ARR_AFTER_VALUE"
              THEN ProcessAfterArrayValue(ch, i, popped)
              ELSE popped
       [] OTHER -> st

RECURSIVE FixScan(_, _, _)
FixScan(text, i, st) ==
  IF i > Len(text) THEN st ELSE FixScan(text, i + 1, FixStep(text[i], i, st))

RECURSIVE Closers(_)
Closers(stack) ==
  IF stack = <<>> THEN <<>>
  ELSE (IF Top(stack) \in {"ARR_START", "ARR_AFTER_VALUE", "ARR_AFTER_COMMA"}
          THEN <<"]">> ELSE <<>>) \o Closers(Pop(stack))

\* fixJson: cut the text after its last valid character and close what is open
FixJson(text) ==
  LET st == FixScan(text, 1, [stack |-> <<"ROOT">>, last |-> 0])
  IN SubSeq(text, 1, st.last) \o Closers(st.stack)

\* parsePartialJson(text).value
parsePartialJson(text) ==
  IF Valid(text) THEN text
  ELSE IF Valid(FixJson(text)) THEN FixJson(text)
  ELSE Undef

\* isDeepEqualData: comparison by value
isDeepEqualData(a, b) == a = b

\* safeValidateTypes(value, schema).success for the two schemas of the model:
\* "array" accepts an array, "number" accepts a number; undefined fails both
SchemaAccepts(schema, value) ==
  /\ value # Undef
  /\ (schema = "array") = (value[1] = "[")

\* ---------------------------------------------------------------- state
VARIABLES
  clients,          \* the ObjectClient instances that have been constructed
  options,          \* per client: the options object given to the constructor
  objects,          \* per client: #objects, a map from id to value
  error,            \* per client: #error
  loading,          \* per client: #loading
  abortController,  \* per client: #abortController, named by the submission that created it
  nsub,             \* submit() calls made so far
  owner,            \* per submission: the client it was called on
  pc,               \* per submission: the await submit() is at, or how it ended
  aborted,          \* per submission: signal.aborted of the controller it created
  accumulatedText,  \* per submission: local accumulatedText
  latestObject,     \* per submission: local latestObject
  cause,            \* per submission: what ended it early (what the catch block caught)
  finishLog,        \* per submission: the onFinish invocations, with the fields they saw
  errorLog,         \* per submission: the onError invocations
  settings,         \* defaultSettingsMiddleware: the default settings it was created with
  params,           \* the call options of the language-model call
  outputs           \* what transformParams returned, call after call

vars == <<clients, options, objects, error, loading, abortController, nsub, owner, pc,
          aborted, accumulatedText, latestObject, cause, finishLog, errorLog,
          settings, params, outputs>>

\* ------------------------------------------------- defaultSettingsMiddleware
MaxCalls == 2       \* successive calls of transformParams

\* call options: `plain` maps the keys the object has, other than
\* providerMetadata, to their values ("undefined" for a key set to undefined);
\* hasPM tells whether the object has the key providerMetadata, pm is its
\* value: undefined, or a map from provider to a map from key to value
Keys == {"temperature", "maxTokens"}
PlainVals == {"undefined", "s", "p"}
Providers == {"openai"}
InnerKeys == {"k1", "k2"}
InnerVals == {"undefined", "s", "p"}

PartialFns(D, R) == UNION {[X -> R] : X \in SUBSET D}
InnerMaps == PartialFns(InnerKeys, InnerVals)
EmptyMap == [x \in {} |-> "undefined"]
UndefPM == [defined |-> FALSE, map |-> EmptyMap]
PMVals == {UndefPM} \cup [defined : {TRUE}, map : PartialFns(Providers, InnerMaps)]
CallOptions ==
  {o \in [plain : PartialFns(Keys, PlainVals), hasPM : BOOLEAN, pm : PMVals] :
     ~o.hasPM => o.pm = UndefPM}
NoOptions == [plain |-> EmptyMap, hasPM |-> FALSE, pm |-> UndefPM]

\* { ...a, ...b } over the own keys of both
Spread(a, b) ==
  [k \in DOMAIN a \cup DOMAIN b |-> IF k \in DOMAIN b THEN b[k] ELSE a[k]]

\* mergeObjects on two key-value maps: the target's entries, overridden by
\* the source's entries whose value is not undefined
MergeValues(target, source) ==
  LET set == {k \in DOMAIN source : source[k] # "undefined"}
  IN [k \in DOMAIN target \cup set |-> IF k \in set THEN source[k] ELSE target[k]]

\* mergeObjects(target, source): undefined when both are, the other one when
\* one is undefined, else the deep merge in which source values win
mergeObjects(target, source) ==
  IF ~target.defined /\ ~source.defined THEN UndefPM
  ELSE IF ~target.defined THEN source
  ELSE IF ~source.defined THEN target
  ELSE [defined |-> TRUE,
        map |-> [pr \in DOMAIN target.map \cup DOMAIN source.map |->
                   IF pr \notin DOMAIN source.map THEN target.map[pr]
                   ELSE IF pr \notin DOMAIN target.map THEN source.map[pr]
                   ELSE MergeValues(target.map[pr], source.map[pr])]]

transformParams_SettingsLast(st, pa) ==
  [plain |-> Spread(pa.plain, st.plain),
   hasPM |-> TRUE,
   pm    |-> mergeObjects(st.pm, pa.pm)]

\* transformParams({ params }) of the middleware created with settings st
transformParams(st, pa) ==
  [plain |-> Spread(st.plain, pa.plain),
   hasPM |-> TRUE,
   pm    |-> mergeObjects(st.pm, pa.pm)]

\* no middleware has been created
NoMiddleware == settings = NoOptions /\ params = NoOptions /\ outputs = <<>>

Ids == {"a", "gen-c1", "gen-c2"}
InitialValues == {Undef, <<"[", "1", "]">>}
Schemas == {"array"}

\* #id = options.id ?? generateId()
Id(c) == IF options[c].id # NoId THEN options[c].id ELSE "gen-" \o c

\* get object()
Object(c) == objects[c][Id(c)]

\* SvelteMap.set(key, value)
MapSet(map, key, value) == [map EXCEPT ![key] = value]

Constructed_IgnoresInitialValue(iv) ==
  /\ objects = [c \in Clients |-> [i \in Ids |-> Undef]]
  /\ error = [c \in Clients |-> NoErr]
  /\ loading = [c \in Clients |-> FALSE]
  /\ abortController = [c \in Clients |-> NoCtrl]
  /\ nsub = 0
  /\ owner = [s \in Subs |-> "c1"]
  /\ pc = [s \in Subs |-> "unused"]
  /\ aborted = [s \in Subs |-> FALSE]
  /\ accumulatedText = [s \in Subs |-> <<>>]
  /\ latestObject = [s \in Subs |-> Undef]
  /\ cause = [s \in Subs |-> "none"]
  /\ finishLog = [s \in Subs |-> <<>>]
  /\ errorLog = [s \in Subs |-> <<>>]

\* the fields of the clients after construction with the initial values iv:
\* every instance has its own map and stores initialValue under its id
Constructed(iv) ==
  /\ objects = [c \in Clients |-> MapSet([i \in Ids |-> Undef], Id(c), iv[c])]
  /\ error = [c \in Clients |-> NoErr]
  /\ loading = [c \in Clients |-> FALSE]
  /\ abortController = [c \in Clients |-> NoCtrl]
  /\ nsub = 0
  /\ owner = [s \in Subs |-> "c1"]
  /\ pc = [s \in Subs |-> "unused"]
  /\ aborted = [s \in Subs |-> FALSE]
  /\ accumulatedText = [s \in Subs |-> <<>>]
  /\ latestObject = [s \in Subs |-> Undef]
  /\ cause = [s \in Subs |-> "none"]
  /\ finishLog = [s \in Subs |-> <<>>]
  /\ errorLog = [s \in Subs |-> <<>>]

\* the options the client reads after construction (initialValue is only read
\* by the constructor)
OptionSets == [id : {"a", NoId}, onFinish : BOOLEAN, onError : BOOLEAN, schema : Schemas]

\* one client, constructed with an id
Init ==
  /\ clients = {"c1"}
  /\ options \in [Clients -> OptionSets]
  /\ options["c1"].id = "a"
  /\ options["c2"] = options["c1"]
  /\ \E v \in InitialValues : Constructed([c \in Clients |-> IF c = "c1" THEN v ELSE Undef])
  /\ NoMiddleware

\* two clients constructed from the same options, the second with the same
\* id as the first or without an id
InitShared ==
  /\ clients = Clients
  /\ options \in [Clients -> OptionSets]
  /\ options["c1"].id = "a"
  /\ \A k \in {"onFinish", "onError", "schema"} : options["c2"][k] = options["c1"][k]
  /\ \E v \in InitialValues : Constructed([c \in Clients |-> v])
  /\ NoMiddleware

\* the options as passed to the constructor, initialValue included
ConstructorOptionSets ==
  [id : {"a", NoId}, initialValue : InitialValues, onFinish : BOOLEAN, onError : BOOLEAN,
   schema : Schemas]

\* one client, constructed with or without an id and an initial value and
\* without callbacks; the options record keeps what was configured
InitInitial ==
  /\ clients = {"c1"}
  /\ options \in [Clients -> ConstructorOptionSets]
  /\ ~options["c1"].onFinish /\ ~options["c1"].onError
  /\ options["c2"] = options["c1"]
  /\ Constructed([c \in Clients |-> IF c = "c1" THEN options[c].initialValue ELSE Undef])
  /\ NoMiddleware

\* s is waiting at one of the awaits of submit()
Running(s) == pc[s] \in {"fetching", "readingText", "streaming"}

\* where s is cut off when its signal aborts: the await it is waiting at
AbortedAt(s) ==
  IF pc[s] = "streaming" THEN "abortStream"
  ELSE IF pc[s] = "readingText" THEN "abortText"
  ELSE "abortFetch"

Stop_ClearsError(c) ==
  LET s == abortController[c] IN
  /\ IF s # NoCtrl
       THEN /\ aborted' = [aborted EXCEPT ![s] = TRUE]
            /\ IF Running(s)
                 THEN /\ pc' = [pc EXCEPT ![s] = "stopped"]
                      /\ cause' = [cause EXCEPT ![s] = AbortedAt(s)]
                 ELSE UNCHANGED <<pc, cause>>
       ELSE UNCHANGED <<aborted, pc, cause>>
  /\ loading' = [loading EXCEPT ![c] = FALSE]
  /\ error' = [error EXCEPT ![c] = NoErr]
  /\ abortController' = [abortController EXCEPT ![c] = NoCtrl]
  /\ UNCHANGED <<settings, params, outputs, clients, options, objects, nsub, owner, accumulatedText,
                 latestObject, finishLog, errorLog>>

Stop_AbortIsFailure(c) ==
  LET s == abortController[c] IN
  /\ IF s # NoCtrl
       THEN /\ aborted' = [aborted EXCEPT ![s] = TRUE]
            /\ IF Running(s)
                 THEN /\ pc' = [pc EXCEPT ![s] = "stopped"]
                      /\ cause' = [cause EXCEPT ![s] = AbortedAt(s)]
                      /\ errorLog' = IF options[c].onError
                                       THEN [errorLog EXCEPT ![s] = Append(@,
                                               [error |-> [name |-> "AbortError", of |-> s]])]
                                       ELSE errorLog
                 ELSE UNCHANGED <<pc, cause, errorLog>>
       ELSE UNCHANGED <<aborted, pc, cause, errorLog>>
  /\ loading' = [loading EXCEPT ![c] = FALSE]
  /\ abortController' = [abortController EXCEPT ![c] = NoCtrl]
  /\ UNCHANGED <<settings, params, outputs, clients, options, objects, error, nsub, owner, accumulatedText,
                 latestObject, finishLog>>

\* stop(): abort the stored controller, if any; finally clear loading and the
\* controller.  The abort rejects the await the submission is waiting at with
\* an abort error, for which the catch block of submit() returns at once
\* (isAbortError), touching no field
Stop(c) ==
  LET s == abortController[c] IN
  /\ IF s # NoCtrl
       THEN /\ aborted' = [aborted EXCEPT ![s] = TRUE]
            /\ IF Running(s)
                 THEN /\ pc' = [pc EXCEPT ![s] = "stopped"]
                      /\ cause' = [cause EXCEPT ![s] = AbortedAt(s)]
                 ELSE UNCHANGED <<pc, cause>>
       ELSE UNCHANGED <<aborted, pc, cause>>
  /\ loading' = [loading EXCEPT ![c] = FALSE]
  /\ abortController' = [abortController EXCEPT ![c] = NoCtrl]
  /\ UNCHANGED <<settings, params, outputs, clients, options, objects, error, nsub, owner, accumulatedText,
                 latestObject, finishLog, errorLog>>

Submit_KeepsError(c) ==
  /\ nsub < MaxSubs
  /\ LET s == nsub + 1 IN
       /\ nsub' = s
       /\ owner' = [owner EXCEPT ![s] = c]
       /\ pc' = [pc EXCEPT ![s] = "fetching"]
       /\ objects' = [objects EXCEPT ![c] = MapSet(@, Id(c), Undef)]
       /\ loading' = [loading EXCEPT ![c] = TRUE]
       /\ abortController' = [abortController EXCEPT ![c] = s]
  /\ UNCHANGED <<settings, params, outputs, clients, options, error, aborted, accumulatedText, latestObject,
                 cause, finishLog, errorLog>>

\* submit(input) up to the await of fetch: reset the fields, store a new
\* controller and start the request with its signal
Submit(c) ==
  /\ nsub < MaxSubs
  /\ LET s == nsub + 1 IN
       /\ nsub' = s
       /\ owner' = [owner EXCEPT ![s] = c]
       /\ pc' = [pc EXCEPT ![s] = "fetching"]
       /\ objects' = [objects EXCEPT ![c] = MapSet(@, Id(c), Undef)]
       /\ loading' = [loading EXCEPT ![c] = TRUE]
       /\ error' = [error EXCEPT ![c] = NoErr]
       /\ abortController' = [abortController EXCEPT ![c] = s]
  /\ UNCHANGED <<settings, params, outputs, clients, options, aborted, accumulatedText, latestObject, cause,
                 finishLog, errorLog>>

Coalesce_Identity(thrown, s) == thrown

\* error instanceof Error ? error : new Error(String(error))
Coalesce(thrown, s) ==
  IF thrown.name = "NonError" THEN [name |-> "CoalescedError", of |-> s] ELSE thrown

\* the catch block of submit() for a thrown value that is not an abort error:
Catch_UpdatesFirst(s, thrown, why, ld, onErrorThrows) ==
  LET c == owner[s]
      coalescedError == Coalesce(thrown, s)
  IN /\ onErrorThrows => options[c].onError
     /\ cause' = [cause EXCEPT ![s] = why]
     /\ errorLog' = IF options[c].onError
                      THEN [errorLog EXCEPT ![s] = Append(@,
                              [error |-> coalescedError])]
                      ELSE errorLog
     /\ pc' = [pc EXCEPT ![s] = IF onErrorThrows THEN "rejected" ELSE "failed"]
     /\ loading' = [ld EXCEPT ![c] = FALSE]
     /\ error' = [error EXCEPT ![c] = coalescedError]

\* onError (when configured) is called first and sees the fields as they are
\* (ld is #loading at that moment); when it throws, the assignments after it
\* are skipped and the promise of submit() rejects
Catch(s, thrown, why, ld, onErrorThrows) ==
  LET c == owner[s]
      coalescedError == Coalesce(thrown, s)
  IN /\ onErrorThrows => options[c].onError
     /\ cause' = [cause EXCEPT ![s] = why]
     /\ errorLog' = IF options[c].onError
                      THEN [errorLog EXCEPT ![s] = Append(@,
                              [error |-> coalescedError])]
                      ELSE errorLog
     /\ IF onErrorThrows
          THEN /\ pc' = [pc EXCEPT ![s] = "rejected"]
               /\ loading' = ld
               /\ error' = error
          ELSE /\ pc' = [pc EXCEPT ![s] = "failed"]
               /\ loading' = [ld EXCEPT ![c] = FALSE]
               /\ error' = [error EXCEPT ![c] = coalescedError]

\* fetch resolves with an OK response that has a body: the pipe starts
FetchOk(s) ==
  /\ pc[s] = "fetching"
  /\ pc' = [pc EXCEPT ![s] = "streaming"]
  /\ UNCHANGED <<settings, params, outputs, clients, options, objects, error, loading, abortController, nsub, owner,
                 aborted, accumulatedText, latestObject, cause, finishLog, errorLog>>

\* fetch resolves with a response that is not OK: response.text() is awaited
FetchNotOk(s) ==
  /\ pc[s] = "fetching"
  /\ pc' = [pc EXCEPT ![s] = "readingText"]
  /\ UNCHANGED <<settings, params, outputs, clients, options, objects, error, loading, abortController, nsub, owner,
                 aborted, accumulatedText, latestObject, cause, finishLog, errorLog>>

\* response.text() resolves and its text is thrown as an Error
TextRead(s, onErrorThrows) ==
  /\ pc[s] = "readingText"
  /\ Catch(s, [name |-> "Error", of |-> s], "request", loading, onErrorThrows)
  /\ UNCHANGED <<settings, params, outputs, clients, options, objects, abortController, nsub, owner, aborted,
                 accumulatedText, latestObject, finishLog>>

\* fetch resolves with an OK response whose body is null
FetchNullBody(s, onErrorThrows) ==
  /\ pc[s] = "fetching"
  /\ Catch(s, [name |-> "Error", of |-> s], "request", loading, onErrorThrows)
  /\ UNCHANGED <<settings, params, outputs, clients, options, objects, abortController, nsub, owner, aborted,
                 accumulatedText, latestObject, finishLog>>

\* fetch rejects with something that is not an abort error (an Error or any other value)
FetchReject(s, isError, onErrorThrows) ==
  /\ pc[s] = "fetching"
  /\ Catch(s, [name |-> IF isError THEN "Error" ELSE "NonError", of |-> s],
           "request", loading, onErrorThrows)
  /\ UNCHANGED <<settings, params, outputs, clients, options, objects, abortController, nsub, owner, aborted,
                 accumulatedText, latestObject, finishLog>>

\* the response stream fails while it is piped (not an abort)
StreamError(s, onErrorThrows) ==
  /\ pc[s] = "streaming"
  /\ Catch(s, [name |-> "Error", of |-> s], "streamError", loading, onErrorThrows)
  /\ UNCHANGED <<settings, params, outputs, clients, options, objects, abortController, nsub, owner, aborted,
                 accumulatedText, latestObject, finishLog>>

\* characters received so far by the submissions in S
RECURSIVE Received(_)
Received(S) ==
  IF S = {} THEN 0
  ELSE LET s == CHOOSE x \in S : TRUE IN Len(accumulatedText[s]) + Received(S \ {s})

Write_ParsesChunk(s, chunk) ==
  /\ pc[s] = "streaming"
  /\ Received(Subs) + Len(chunk) <= MaxText
  /\ LET c == owner[s]
         text == accumulatedText[s] \o chunk
         currentObject == parsePartialJson(chunk)
     IN /\ accumulatedText' = [accumulatedText EXCEPT ![s] = text]
        /\ IF ~isDeepEqualData(latestObject[s], currentObject)
             THEN /\ latestObject' = [latestObject EXCEPT ![s] = currentObject]
                  /\ objects' = [objects EXCEPT ![c] = MapSet(@, Id(c), currentObject)]
             ELSE UNCHANGED <<latestObject, objects>>
  /\ UNCHANGED <<settings, params, outputs, clients, options, error, loading, abortController, nsub, owner, pc,
                 aborted, cause, finishLog, errorLog>>

Write_AlwaysSets(s, chunk) ==
  /\ pc[s] = "streaming"
  /\ Received(Subs) + Len(chunk) <= MaxText
  /\ LET c == owner[s]
         text == accumulatedText[s] \o chunk
         currentObject == parsePartialJson(text)
     IN /\ accumulatedText' = [accumulatedText EXCEPT ![s] = text]
        /\ latestObject' = [latestObject EXCEPT ![s] = currentObject]
        /\ objects' = [objects EXCEPT ![c] = MapSet(@, Id(c), currentObject)]
  /\ UNCHANGED <<settings, params, outputs, clients, options, error, loading, abortController, nsub, owner, pc,
                 aborted, cause, finishLog, errorLog>>

\* WritableStream.write(chunk)
Write(s, chunk) ==
  /\ pc[s] = "streaming"
  /\ Received(Subs) + Len(chunk) <= MaxText
  /\ LET c == owner[s]
         text == accumulatedText[s] \o chunk
         currentObject == parsePartialJson(text)
     IN /\ accumulatedText' = [accumulatedText EXCEPT ![s] = text]
        /\ IF ~isDeepEqualData(latestObject[s], currentObject)
             THEN /\ latestObject' = [latestObject EXCEPT ![s] = currentObject]
                  /\ objects' = [objects EXCEPT ![c] = MapSet(@, Id(c), currentObject)]
             ELSE UNCHANGED <<latestObject, objects>>
  /\ UNCHANGED <<settings, params, outputs, clients, options, error, loading, abortController, nsub, owner, pc,
                 aborted, cause, finishLog, errorLog>>

FinishEvent_NoError(schema, value, s) ==
  IF SchemaAccepts(schema, value)
    THEN [object |-> value, error |-> NoErr]
    ELSE [object |-> Undef, error |-> NoErr]

FinishEvent_ErrorWithObject(schema, value, s) ==
  IF SchemaAccepts(schema, value)
    THEN [object |-> value, error |-> NoErr]
    ELSE [object |-> value, error |-> [name |-> "TypeValidationError", of |-> s]]

\* the event object handed to onFinish
FinishEvent(schema, value, s) ==
  IF SchemaAccepts(schema, value)
    THEN [object |-> value, error |-> NoErr]
    ELSE [object |-> Undef, error |-> [name |-> "TypeValidationError", of |-> s]]

Close_FinishBeforeClear(s, onFinishThrows, onErrorThrows) ==
  /\ pc[s] = "streaming"
  /\ onFinishThrows => options[owner[s]].onFinish
  /\ onErrorThrows => onFinishThrows
  /\ LET c == owner[s]
         ld == [loading EXCEPT ![c] = FALSE]
         ctrl == [abortController EXCEPT ![c] = NoCtrl]
     IN /\ abortController' = ctrl
        /\ finishLog' = IF options[c].onFinish
                          THEN [finishLog EXCEPT ![s] = Append(@,
                                  [event |-> FinishEvent(options[c].schema, latestObject[s], s),
                                   loading |-> loading[c], controller |-> abortController[c],
                                   text |-> accumulatedText[s]])]
                          ELSE finishLog
        /\ IF onFinishThrows
             THEN Catch(s, [name |-> "CallbackError", of |-> s], "onFinishThrew",
                        ld, onErrorThrows)
             ELSE /\ pc' = [pc EXCEPT ![s] = "closed"]
                  /\ loading' = ld
                  /\ UNCHANGED <<error, cause, errorLog>>
  /\ UNCHANGED <<settings, params, outputs, clients, options, objects, nsub, owner, aborted, accumulatedText,
                 latestObject>>

\* WritableStream.close(): clear loading and the controller, then validate
\* latestObject and call onFinish (when configured).  An onFinish that throws
\* makes pipeTo reject, which lands in the catch block of submit()
Close(s, onFinishThrows, onErrorThrows) ==
  /\ pc[s] = "streaming"
  /\ onFinishThrows => options[owner[s]].onFinish
  /\ onErrorThrows => onFinishThrows
  /\ LET c == owner[s]
         ld == [loading EXCEPT ![c] = FALSE]
         ctrl == [abortController EXCEPT ![c] = NoCtrl]
     IN /\ abortController' = ctrl
        /\ finishLog' = IF options[c].onFinish
                          THEN [finishLog EXCEPT ![s] = Append(@,
                                  [event |-> FinishEvent(options[c].schema, latestObject[s], s),
                                   loading |-> ld[c], controller |-> ctrl[c],
                                   text |-> accumulatedText[s]])]
                          ELSE finishLog
        /\ IF onFinishThrows
             THEN Catch(s, [name |-> "CallbackError", of |-> s], "onFinishThrew",
                        ld, onErrorThrows)
             ELSE /\ pc' = [pc EXCEPT ![s] = "closed"]
                  /\ loading' = ld
                  /\ UNCHANGED <<error, cause, errorLog>>
  /\ UNCHANGED <<settings, params, outputs, clients, options, objects, nsub, owner, aborted, accumulatedText, latestObject>>

Chunks == {<<"[">>, <<"1">>, <<"]">>}

Next ==
  \/ \E c \in clients : Stop(c)
  \/ \E c \in clients : Submit(c)
  \/ \E s \in Subs : FetchOk(s)
  \/ \E s \in Subs : FetchNotOk(s)
  \/ \E s \in Subs, t \in BOOLEAN : TextRead(s, t)
  \/ \E s \in Subs, t \in BOOLEAN : FetchNullBody(s, t)
  \/ \E s \in Subs, e \in BOOLEAN, t \in BOOLEAN : FetchReject(s, e, t)
  \/ \E s \in Subs, t \in BOOLEAN : StreamError(s, t)
  \/ \E s \in Subs, chunk \in Chunks : Write(s, chunk)
  \/ \E s \in Subs, f \in BOOLEAN, t \in BOOLEAN : Close(s, f, t)

Spec == Init /\ [][Next]_vars

SpecShared == InitShared /\ [][Next]_vars

SpecInitial == InitInitial /\ [][Next]_vars

\* a middleware created with some default settings and a call with some
\* options; one client that is not used
InitMiddleware ==
  /\ settings \in CallOptions
  /\ params \in CallOptions
  /\ outputs = <<>>
  /\ clients = {"c1"}
  /\ options = [c \in Clients |->
                  [id |-> "a", onFinish |-> FALSE, onError |-> FALSE, schema |-> "array"]]
  /\ Constructed([c \in Clients |-> Undef])

\* the pipeline calls transformParams: first on the call options, then on
\* what the previous call returned
TransformParams ==
  /\ Len(outputs) < MaxCalls
  /\ LET input == IF outputs = <<>> THEN params ELSE outputs[Len(outputs)]
     IN outputs' = Append(outputs, transformParams(settings, input))
  /\ UNCHANGED <<settings, params, clients, options, objects, error, loading,
                 abortController, nsub, owner, pc, aborted, accumulatedText, latestObject,
                 cause, finishLog, errorLog>>

NextMiddleware == TransformParams

SpecMiddleware == InitMiddleware /\ [][NextMiddleware]_vars

\* ---------------------------------------------------------------- claims
IsError(e) == e.name \in {"Error", "CoalescedError", "CallbackError", "TypeValidationError"}

\* the submissions made on client c so far, and the latest of them
SubsOf(c) == {s \in 1..nsub : owner[s] = c}
IsLatest(s) == s \in 1..nsub /\ \A s2 \in SubsOf(owner[s]) : s2 <= s

\* stop() was called while s was streaming, and submit() has not been called since
StoppedStreaming(s) ==
  /\ aborted[s]
  /\ cause[s] = "abortStream"
  /\ IsLatest(s)

\* C1: after stop() during streaming and until the next submit(), the exposed
\* object does not change, error stays undefined, onError is not invoked for
\* the stopped submission and loading is false
C1_StopKeepsPartial ==
  /\ [][\A s \in Subs : (StoppedStreaming(s) /\ StoppedStreaming(s)') =>
          Object(owner[s])' = Object(owner[s])]_vars
  /\ [](\A s \in Subs : StoppedStreaming(s) =>
          /\ error[owner[s]] = NoErr
          /\ errorLog[s] = <<>>
          /\ ~loading[owner[s]])

C1_Witness ==
  \E s \in Subs : StoppedStreaming(s) /\ latestObject[s] # Undef /\ pc[s] = "stopped"

\* the submission settles in this step (its promise resolves or rejects)
Settles(s) == Running(s) /\ ~Running(s)'
\* the fetch rejected, the response was not OK or its body was null
RequestFailures == {"request"}

FinishInvoked(s) == Len(finishLog'[s]) = Len(finishLog[s]) + 1
ValidationFails(s) == ~SchemaAccepts(options[owner[s]].schema, latestObject[s])
ValidationError(s) == [name |-> "TypeValidationError", of |-> s]

C4_SubmitResets ==
  [][\A c \in Clients : (nsub' # nsub /\ owner'[nsub'] = c) =>
       /\ Object(c)' = Undef
       /\ loading'[c]
       /\ error'[c] = NoErr]_vars

\* a second submit() made while the first is streaming a partial object
C4_Witness ==
  /\ nsub = 2 /\ pc[2] = "fetching"
  /\ pc[1] = "streaming" /\ latestObject[1] # Undef
  /\ Object(owner[2]) = Undef /\ owner[1] = owner[2]

\* s is pending and a later submit() was made on the same client
Superseded(s) == Running(s) /\ ~IsLatest(s)
ActsIn(s) == pc'[s] # pc[s] \/ accumulatedText'[s] # accumulatedText[s]

\* C5: a submission that was superseded by a later submit() no longer changes
\* the exposed object, loading, error or the stored controller
C5_SupersededIsInert ==
  [][\A s \in Subs : (Superseded(s) /\ ActsIn(s)) =>
       UNCHANGED <<objects, loading, error, abortController>>]_vars

C5_Witness ==
  \E s \in Subs : Superseded(s) /\ pc[s] = "streaming" /\ latestObject[s] # Undef

\* C6: an onFinish event never carries both an object and an error; it carries
\* the validated value and no error exactly when the last parsed value passes
\* validation, and no object and the validation error exactly when it fails
C6_FinishEventExclusive ==
  \A s \in Subs : \A i \in 1..Len(finishLog[s]) :
    LET ev == finishLog[s][i].event
        ok == SchemaAccepts(options[owner[s]].schema, latestObject[s])
    IN /\ ~(ev.object # Undef /\ ev.error # NoErr)
       /\ ok <=> (ev.error = NoErr)
       /\ ok => ev.object = latestObject[s]
       /\ ~ok <=> (ev.object = Undef /\ ev.error = ValidationError(s))

\* both kinds of event have been delivered
C6_Witness ==
  /\ \E s \in Subs : finishLog[s] # <<>> /\ finishLog[s][1].event.object = <<"[", "1", "]">>
  /\ \E s \in Subs : finishLog[s] # <<>> /\ finishLog[s][1].event.error = ValidationError(s)

\* a submission of c that was started and has not completed, failed or been stopped
InProgress(c) == \E s \in SubsOf(c) : Running(s)

\* C7: loading is true exactly when a request of the client is in progress
C7_LoadingIffInProgress ==
  \A c \in clients : loading[c] <=> InProgress(c)

\* C8: two clients constructed with the same id expose the same object
C8_SameIdSharesObject ==
  \A c1 \in clients, c2 \in clients :
    (options[c1].id # NoId /\ options[c1].id = options[c2].id) => Object(c1) = Object(c2)

\* a step that is neither a submit() nor a step of a submission's request or
\* stream: a stop()
StopStep ==
  /\ UNCHANGED <<nsub, accumulatedText>>
  /\ \A s \in Subs : pc'[s] # pc[s] => pc'[s] = "stopped"

\* C9: stop() leaves the exposed object and error unchanged, clears loading and
\* the stored controller, and a second stop() right after it changes nothing
C9_StopFrame ==
  /\ [][StopStep => \E c \in clients :
          /\ objects' = objects /\ error' = error
          /\ ~loading'[c] /\ abortController'[c] = NoCtrl
          /\ \A d \in Clients \ {c} :
               loading'[d] = loading[d] /\ abortController'[d] = abortController[d]]_vars
  /\ [](\A c \in clients :
          /\ ENABLED Stop(c)
          /\ (~loading[c] /\ abortController[c] = NoCtrl) =>
               ~ENABLED (Stop(c) /\ vars' # vars))

C9_Witness ==
  \E c \in clients :
    /\ ~loading[c] /\ abortController[c] = NoCtrl /\ error[c] # NoErr
    /\ \E s \in SubsOf(c) : aborted[s] /\ latestObject[s] # Undef /\ Object(c) = latestObject[s]

StreamClosed(s) == pc[s] = "closed" \/ cause[s] = "onFinishThrew"
StoppedOrFailed(s) ==
  \/ aborted[s]
  \/ cause[s] \in RequestFailures \cup {"streamError", "abortFetch", "abortText", "abortStream"}

\* C10: with onFinish configured it is invoked once when the stream closes and
\* never for a stopped or failed submission; it runs after every chunk was
\* applied, with loading false and the controller cleared, on the last parsed value
C10_FinishOnceAfterClose ==
  \A s \in Subs :
    LET c == owner[s]
        last == parsePartialJson(accumulatedText[s])
    IN /\ Len(finishLog[s]) <= 1
       /\ (options[c].onFinish /\ StreamClosed(s)) => Len(finishLog[s]) = 1
       /\ (StoppedOrFailed(s) \/ Running(s) \/ pc[s] = "unused") => finishLog[s] = <<>>
       /\ \A i \in 1..Len(finishLog[s]) :
            LET e == finishLog[s][i] IN
              /\ ~e.loading
              /\ e.controller = NoCtrl
              /\ e.text = accumulatedText[s]
              /\ e.event.error = NoErr <=> SchemaAccepts(options[c].schema, last)
              /\ e.event.object = IF e.event.error = NoErr THEN last ELSE Undef

C10_Witness ==
  \E s \in Subs :
    /\ pc[s] = "closed" /\ Len(finishLog[s]) = 1
    /\ Len(accumulatedText[s]) = 2 /\ finishLog[s][1].event.object = accumulatedText[s]

\* a chunk of s is processed in this step
ChunkApplied(s) == accumulatedText'[s] # accumulatedText[s]

\* no other submission of the client is pending and the exposed object is what
\* s wrote last (undefined before its first write): the state every
\* submission without an overlapping submit() is in while it streams
Undisturbed(s) ==
  /\ \A s2 \in SubsOf(owner[s]) \ {s} : ~Running(s2)
  /\ Object(owner[s]) = latestObject[s]

\* C11: in a submission that no other submit() overlaps, after each chunk the
\* exposed object is the partial-JSON parse of all the text received so far
\* (the first submission of a client is such a submission)
C11_ObjectIsParseOfAllChunks ==
  /\ [][\A s \in Subs : (ChunkApplied(s) /\ Undisturbed(s)) =>
          Object(owner[s])' = parsePartialJson(accumulatedText'[s])]_vars
  /\ []((nsub = 1 /\ pc[1] = "streaming") =>
          /\ Undisturbed(1)
          /\ Object(owner[1]) = parsePartialJson(accumulatedText[1]))

\* two chunks were applied and the second replaced the value of the first
C11_Witness ==
  /\ nsub = 1 /\ pc[1] = "streaming"
  /\ accumulatedText[1] = <<"[", "1">>
  /\ Object(owner[1]) = <<"[", "1", "]">>

\* C12: a chunk after which the text parses to the same value as before it
\* (undefined before the first chunk) writes nothing: the exposed object,
\* loading and error are unchanged
C12_EqualChunkWritesNothing ==
  [][\A s \in Subs :
       (ChunkApplied(s) /\
        parsePartialJson(accumulatedText'[s]) = parsePartialJson(accumulatedText[s])) =>
          UNCHANGED <<objects, loading, error>>]_vars

\* "[" and then "]": both texts parse to the empty array
C12_Witness ==
  \E s \in Subs :
    /\ pc[s] = "streaming" /\ accumulatedText[s] = <<"[", "]">>
    /\ latestObject[s] = <<"[", "]">>

\* no submit() has been called on any client
BeforeFirstSubmit == nsub = 0

\* no request has been issued: no submission exists and no controller is stored
NoRequest ==
  /\ \A s \in Subs : pc[s] = "unused"
  /\ \A c \in Clients : abortController[c] = NoCtrl

\* C13: before the first submit() the exposed object is the configured
\* initialValue (undefined when none is given), loading is false, error is
\* undefined and no request has been issued
C13_InitialState ==
  BeforeFirstSubmit =>
    /\ \A c \in clients : /\ Object(c) = options[c].initialValue
                          /\ ~loading[c]
                          /\ error[c] = NoErr
    /\ NoRequest

\* a client constructed with an initial value and no id, before any submit()
C13_Witness ==
  /\ BeforeFirstSubmit
  /\ options["c1"].initialValue = <<"[", "1", "]">>
  /\ options["c1"].id = NoId
  /\ Object("c1") = <<"[", "1", "]">>

\* onError is invoked for submission s in this step
OnErrorInvoked(s) == Len(errorLog'[s]) > Len(errorLog[s])

\* #loading at the moment onError runs: as before the step, except that
\* close() has already cleared it when the error was thrown by onFinish
SeenLoading(s) == IF cause'[s] = "onFinishThrew" THEN FALSE ELSE loading[owner[s]]

CallbacksReturned(s) == pc[s] # "rejected" /\ cause[s] # "onFinishThrew"

\* the request of s was aborted by stop() while s was pending
Stopped(s) == pc[s] = "stopped"

\* C15: each callback is invoked at most once per submission; when the
\* callbacks return normally at most one of onFinish and onError is invoked;
\* a stopped submission invokes neither
C15_AtMostOneCallback ==
  \A s \in Subs :
    /\ Len(finishLog[s]) <= 1
    /\ Len(errorLog[s]) <= 1
    /\ CallbacksReturned(s) => Len(finishLog[s]) + Len(errorLog[s]) <= 1
    /\ Stopped(s) => (finishLog[s] = <<>> /\ errorLog[s] = <<>>)

\* with both callbacks configured: one submission closed and got onFinish
\* only, another failed and got onError only
C15_Witness ==
  /\ options["c1"].onFinish /\ options["c1"].onError
  /\ \E s \in Subs : /\ pc[s] = "closed"
                     /\ Len(finishLog[s]) = 1 /\ errorLog[s] = <<>>
  /\ \E s \in Subs : /\ pc[s] = "failed" /\ cause[s] # "onFinishThrew"
                     /\ Len(errorLog[s]) = 1 /\ finishLog[s] = <<>>

\* stop() was called while a submission with both callbacks was streaming
C15_WitnessStopped ==
  \E s \in Subs :
    /\ options[owner[s]].onFinish /\ options[owner[s]].onError
    /\ Stopped(s) /\ cause[s] = "abortStream"

\* C16: every submission that is awaiting its response or streaming is the
\* one whose controller the client stores, so that stop() cancels it
C16_PendingIsCancellable ==
  \A s \in Subs : Running(s) => abortController[owner[s]] = s

\* the value the call options o hold for providerMetadata at provider pr, key k
PMAt(o, pr, k) ==
  IF o.pm.defined /\ pr \in DOMAIN o.pm.map /\ k \in DOMAIN o.pm.map[pr]
    THEN o.pm.map[pr][k] ELSE "undefined"

\* the input of the i-th call of transformParams
InputOf(i) == IF i = 1 THEN params ELSE outputs[i - 1]

\* C17: in what transformParams returns, a key other than providerMetadata
\* has the value of the call options when they have the key and the default
\* value only when they do not; providerMetadata is always present and is
\* the merge of the default and the call's metadata, the call's values
\* winning; transforming the output again returns the same output
C17_TransformParams ==
  \A i \in 1..Len(outputs) :
    LET in == InputOf(i)
        out == outputs[i]
    IN /\ DOMAIN out.plain = DOMAIN settings.plain \cup DOMAIN in.plain
       /\ \A k \in DOMAIN in.plain : out.plain[k] = in.plain[k]
       /\ \A k \in DOMAIN settings.plain \ DOMAIN in.plain : out.plain[k] = settings.plain[k]
       /\ out.hasPM
       /\ out.pm = mergeObjects(settings.pm, in.pm)
       /\ \A pr \in Providers, k \in InnerKeys :
            PMAt(out, pr, k) = IF PMAt(in, pr, k) # "undefined"
                                 THEN PMAt(in, pr, k) ELSE PMAt(settings, pr, k)
       /\ i > 1 => out = outputs[i - 1]

\* defaults and call options disagree on a key and on a metadata entry, each
\* has a key the other lacks, and the output was transformed again
C17_Witness ==
  /\ Len(outputs) = 2
  /\ settings.plain = [k \in Keys |-> "s"]
  /\ params.plain = [k \in {"temperature"} |-> "p"]
  /\ PMAt(settings, "openai", "k1") = "s" /\ PMAt(settings, "openai", "k2") = "s"
  /\ PMAt(params, "openai", "k1") = "p" /\ PMAt(params, "openai", "k2") = "undefined"
  /\ outputs[1].plain = [k \in Keys |-> IF k = "temperature" THEN "p" ELSE "s"]
  /\ PMAt(outputs[1], "openai", "k1") = "p" /\ PMAt(outputs[1], "openai", "k2") = "s"
====
